---- MODULE Spec2Model ----
(***************************************************************************)
(* Fixed-step ODE solvers (Euler, Heun, RK4), the solver factory and the   *)
(* convergence analyser of metodo-numerico, as a state machine.            *)
(*                                                                         *)
(* Numbers.  The solvers store every t and y in numpy float64 arrays and   *)
(* compute with IEEE-754 binary floating point.  The model keeps the       *)
(* structure of that format and shrinks its parameters: a float is         *)
(*   [c |-> "fin", v |-> k]   the real number k / UNIT,                    *)
(*   [c |-> "inf", v |-> s]   +infinity (s = 1) or -infinity (s = -1),     *)
(*   [c |-> "nan", v |-> 0]   NaN,                                         *)
(* a finite k has at most PREC significant bits, the smallest spacing is   *)
(* 1/UNIT (gradual underflow), every operation rounds its exact result to  *)
(* the nearest float, ties to even, and a result above MaxFinite is an     *)
(* infinity.  A Python int argument is the float it converts to (both the  *)
(* array store and numpy's == convert it).  [c |-> "str"] is an argument   *)
(* that is not a number; n is [c |-> "int", v |-> k] or a non-int number   *)
(* [c |-> "float", v |-> k].                                               *)
(*                                                                         *)
(* Specifications.  Spec: one caller constructing solvers, solving, asking *)
(* the factory and running step-size sweeps.  SpecUtils: compare_methods   *)
(* and calculate_errors called on their own.  SpecThreads: two solve calls *)
(* interleaved.  SpecScenario: y' = y with decimal step sizes, in an       *)
(* enclosing arithmetic fine enough for three decimals.  SpecFair: solvers *)
(* constructed and run on valid arguments, the interpreter never stopping  *)
(* inside a running solve.  SpecUI: the window of main.py.  SpecConfig:    *)
(* the configuration manager.  SpecTheme: the theme manager.               *)
(***************************************************************************)
EXTENDS Integers, Sequences, FiniteSets, TLC

\* Bounds of the model.
PREC == 4      \* significant bits of a float (53 in float64)
UNIT == 4      \* 1.0 is UNIT smallest positive floats
EMAX == 2      \* the largest finite float is (2^PREC - 1) * 2^EMAX
MaxN == 3      \* largest number of steps asked for

VARIABLES
    given,      \* the t0, y0, h, n the caller holds and calls solve with
    solver,     \* the solver instance: its cls, funcion, f, name, order
    op,         \* the operation called last
    pc,         \* "idle", "loop" (inside solve's for loop), "returned", "raised"
    args,       \* the arguments of that call
    i,          \* solve: the loop index
    t_values,   \* solve: the local array t_values
    y_values,   \* solve: the local array y_values
    evals,      \* solve: the points at which evaluar_funcion was called, in order
    ret,        \* what the call returned, <<>> if it returned nothing
    exc,        \* the exception the call raised, NoExc if none
    calls,      \* the solver.solve calls the analysis call made, in order
    prev,       \* what the caller remembers of this solver: the fields it was
                \* constructed with, the first trajectory solve returned for the
                \* caller's arguments, how many such solves completed (up to 2),
                \* and whether a solve with other arguments completed since
    frames,     \* concurrent solves: the locals of each thread's solve call
    app         \* the application layer: the window of EDOSolverApp, or the
                \* ConfigManager with its class attribute DEFAULT_CONFIG, or
                \* the ThemeManager with the theme files; NoApp when absent

vars == <<given, solver, op, pc, args, i, t_values, y_values, evals, ret, exc,
          calls, prev, frames, app>>

\* No application object constructed.
NoApp == [layer |-> "none"]

-----------------------------------------------------------------------------
\* float64 arithmetic, at reduced precision

Abs(x) == IF x < 0 THEN -x ELSE x
Sgn(x) == IF x < 0 THEN -1 ELSE 1

Fin(v) == [c |-> "fin", v |-> v]
NaN == [c |-> "nan", v |-> 0]
Inf(s) == [c |-> "inf", v |-> s]
NotANumber == [c |-> "str", v |-> 0]

MaxFinite == (2^PREC - 1) * 2^EMAX

\* The spacing of the floats around magnitude q: the least power of two s
\* with q < 2^PREC * s.
RECURSIVE Quantum(_, _)
Quantum(q, s) == IF q < 2^PREC * s THEN s ELSE Quantum(q, 2 * s)

\* a / d (both non-negative, d > 0) rounded to the nearest float, ties to even.
RoundMag(a, d) ==
    LET s == Quantum(a \div d, 1)
        m == a \div (d * s)
        r == a % (d * s)
        up == \/ 2 * r > d * s
              \/ (2 * r = d * s /\ m % 2 = 1)
    IN  (IF up THEN m + 1 ELSE m) * s

Round(num, den) ==
    LET mag == RoundMag(Abs(num), den)
    IN  IF mag > MaxFinite THEN Inf(Sgn(num)) ELSE Fin(Sgn(num) * mag)

IsFinite(a) == a.c = "fin"
IsFloat(a) == a.c \in {"fin", "inf", "nan"}
SignOf(a) == IF a.v < 0 THEN -1 ELSE 1

\* a + b
FAdd(a, b) ==
    IF a.c = "nan" \/ b.c = "nan" THEN NaN
    ELSE IF a.c = "inf" /\ b.c = "inf" THEN (IF a.v = b.v THEN a ELSE NaN)
    ELSE IF a.c = "inf" THEN a
    ELSE IF b.c = "inf" THEN b
    ELSE Round(a.v + b.v, 1)

\* a * b
FMul(a, b) ==
    IF a.c = "nan" \/ b.c = "nan" THEN NaN
    ELSE IF a.c = "inf" \/ b.c = "inf"
         THEN (IF a.v = 0 \/ b.v = 0 THEN NaN ELSE Inf(SignOf(a) * SignOf(b)))
    ELSE Round(a.v * b.v, UNIT)

\* a / k for the integer literal k > 0 (h/2, h/6, h*k1/2)
FDivInt(a, k) ==
    IF a.c = "fin" THEN Round(a.v, k) ELSE a

\* k * a for the integer literal k > 0 (2*k2, 2*k3)
FMulInt(k, a) ==
    IF a.c = "fin" THEN Round(k * a.v, 1) ELSE a

\* a == b and a <= b as IEEE comparisons: false whenever a NaN is involved
FEq(a, b) == a.c # "nan" /\ b.c # "nan" /\ a = b
FLe(a, b) ==
    /\ a.c # "nan" /\ b.c # "nan"
    /\ \/ a = b
       \/ a.c = "inf" /\ a.v = -1
       \/ b.c = "inf" /\ b.v = 1
       \/ a.c = "fin" /\ b.c = "fin" /\ a.v <= b.v
FLt(a, b) == FLe(a, b) /\ a # b

\* -a, a - b
FNeg(a) == IF a.c = "nan" THEN a ELSE [c |-> a.c, v |-> -a.v]
FSub(a, b) == FAdd(a, FNeg(b))

\* a / b between Python floats: [ok, val], not ok (ZeroDivisionError) when b is 0
FDiv(a, b) ==
    IF b.c = "fin" /\ b.v = 0 THEN [ok |-> FALSE, val |-> NaN]
    ELSE IF a.c = "nan" \/ b.c = "nan" THEN [ok |-> TRUE, val |-> NaN]
    ELSE IF a.c = "inf" /\ b.c = "inf" THEN [ok |-> TRUE, val |-> NaN]
    ELSE IF a.c = "inf" THEN [ok |-> TRUE, val |-> Inf(SignOf(a) * SignOf(b))]
    ELSE IF b.c = "inf" THEN [ok |-> TRUE, val |-> Fin(0)]
    ELSE [ok |-> TRUE, val |-> Round(Sgn(a.v) * Sgn(b.v) * Abs(a.v) * UNIT, Abs(b.v))]

\* int(a) of a finite float: truncation towards zero
IntOf(a) == Sgn(a.v) * (Abs(a.v) \div UNIT)

Zero == Fin(0)

\* np.zeros(k)
Zeros(k) == [j \in 1..k |-> Zero]

-----------------------------------------------------------------------------
\* Exceptions

NoExc == [type |-> "None", msg |-> <<>>, point |-> <<>>, step |-> -1]

\* An exception raised with a message and nothing else: no attribute of it
\* holds a point or a step index.
Raise(type, msg) == [type |-> type, msg |-> msg, point |-> <<>>, step |-> -1]

-----------------------------------------------------------------------------
\* The solver classes

Classes == {"EulerSolver", "HeunSolver", "RK4Solver"}

\* The expression strings the model draws funcion from; "y +" does not parse.
Funciones == {"0", "y", "1/t", "y +"}

\* sp.sympify(funcion): the parsed expression, or no expression
Sympify(funcion) ==
    CASE funcion = "0" -> [ok |-> TRUE, expr |-> "Integer(0)"]
      [] funcion = "y" -> [ok |-> TRUE, expr |-> "Symbol(y)"]
      [] funcion = "1/t" -> [ok |-> TRUE, expr |-> "Pow(Symbol(t), -1)"]
      [] OTHER -> [ok |-> FALSE, expr |-> "None"]

NoSolver == [cls |-> "None", funcion |-> "", f |-> "None", name |-> "", order |-> 0]

ClassName(cls) ==
    CASE cls = "EulerSolver" -> "Euler"
      [] cls = "HeunSolver" -> "Heun"
      [] cls = "RK4Solver" -> "RK4"

ClassOrder(cls) ==
    CASE cls = "EulerSolver" -> 1
      [] cls = "HeunSolver" -> 2
      [] cls = "RK4Solver" -> 4

\* cls(*a): __init__(self, funcion) takes exactly one argument besides self.
\* [ok, obj, exc]
Construct(cls, a) ==
    IF Len(a) # 1
    THEN [ok |-> FALSE, obj |-> NoSolver,
          exc |-> Raise("TypeError",
                        <<"__init__() missing 1 required positional argument: ", "funcion">>)]
    ELSE LET p == Sympify(a[1]) IN
         IF ~p.ok
         THEN [ok |-> FALSE, obj |-> NoSolver,
               exc |-> Raise("SympifyError", <<"could not parse ", a[1]>>)]
         ELSE [ok |-> TRUE,
               obj |-> [cls |-> cls, funcion |-> a[1], f |-> p.expr,
                        name |-> ClassName(cls), order |-> ClassOrder(cls)],
               exc |-> NoExc]

\* float(self.f.subs({self.t: t_val, self.y: y_val})): [ok, val]; not ok when
\* the substituted expression is not a real number (1/0 is zoo) and float()
\* raises TypeError.
evaluar_funcion(f, t_val, y_val) ==
    CASE f = "Integer(0)" -> [ok |-> TRUE, val |-> Zero]
      [] f = "Symbol(y)" -> [ok |-> TRUE, val |-> y_val]
      [] f = "Pow(Symbol(t), -1)" ->
            IF t_val.c = "nan" THEN [ok |-> TRUE, val |-> NaN]
            ELSE IF t_val.c = "inf" THEN [ok |-> TRUE, val |-> Zero]
            ELSE IF t_val.v = 0 THEN [ok |-> FALSE, val |-> NaN]
            ELSE [ok |-> TRUE,
                  val |-> Round(Sgn(t_val.v) * UNIT * UNIT, Abs(t_val.v))]

\* The exception float() raises out of evaluar_funcion.
EvalError == Raise("TypeError", <<"Cannot convert complex to float">>)

\* _validar_parametros testing "n < 0" where the code tests "n <= 0"
validar_parametros_n_negativo(t0, y0, h, n) ==
    IF n.c # "int" \/ n.v < 0
    THEN Raise("ValueError", <<"El número de pasos debe ser un entero positivo">>)
    ELSE IF h.c = "str"
    THEN Raise("TypeError", <<"'<=' not supported between instances of 'str' and 'int'">>)
    ELSE IF FLe(h, Fin(0))
    THEN Raise("ValueError", <<"El tamaño del paso debe ser positivo">>)
    ELSE IF ~IsFloat(t0) \/ ~IsFloat(y0)
    THEN Raise("ValueError", <<"Los valores iniciales deben ser números">>)
    ELSE NoExc

\* _validar_parametros(t0, y0, h, n): the exception it raises, NoExc if none.
\* "h <= 0" between a str and an int is itself a TypeError.
_validar_parametros(t0, y0, h, n) ==
    IF n.c # "int" \/ n.v <= 0
    THEN Raise("ValueError", <<"El número de pasos debe ser un entero positivo">>)
    ELSE IF h.c = "str"
    THEN Raise("TypeError", <<"'<=' not supported between instances of 'str' and 'int'">>)
    ELSE IF FLe(h, Zero)
    THEN Raise("ValueError", <<"El tamaño del paso debe ser positivo">>)
    ELSE IF ~IsFloat(t0) \/ ~IsFloat(y0)
    THEN Raise("ValueError", <<"Los valores iniciales deben ser números">>)
    ELSE NoExc

-----------------------------------------------------------------------------
\* One iteration of each variant's loop body at (t, y) with step h:
\* [ok, y_next, pts], pts the points evaluar_funcion was called at, in order,
\* the last one being the failing point when not ok.

StepFailed(pts) == [ok |-> FALSE, y_next |-> NaN, pts |-> pts]

\* EulerStep taking the slope at (t + h, y)
EulerStepAtNextT(f, t, y, h) ==
    LET e1 == evaluar_funcion(f, FAdd(t, h), y) IN
    IF ~e1.ok THEN StepFailed(<<<<FAdd(t, h), y>>>>)
    ELSE [ok |-> TRUE, y_next |-> FAdd(y, FMul(h, e1.val)), pts |-> <<<<FAdd(t, h), y>>>>]

EulerStep(f, t, y, h) ==
    LET e1 == evaluar_funcion(f, t, y) IN
    IF ~e1.ok THEN StepFailed(<<<<t, y>>>>)
    ELSE [ok |-> TRUE, y_next |-> FAdd(y, FMul(h, e1.val)), pts |-> <<<<t, y>>>>]

\* HeunStep evaluating the corrector slope at t instead of t + h
HeunStepSecondAtT(f, t, y, h) ==
    LET e1 == evaluar_funcion(f, t, y) IN
    IF ~e1.ok THEN StepFailed(<<<<t, y>>>>)
    ELSE LET f1 == e1.val
             y_pred == FAdd(y, FMul(h, f1))
             e2 == evaluar_funcion(f, t, y_pred)
         IN  IF ~e2.ok THEN StepFailed(<<<<t, y>>, <<t, y_pred>>>>)
             ELSE [ok |-> TRUE,
                   y_next |-> FAdd(y, FMul(FDivInt(h, 2), FAdd(f1, e2.val))),
                   pts |-> <<<<t, y>>, <<t, y_pred>>>>]

\* HeunStep with y_pred where the corrector takes f2
HeunStepCorrectorUsesPredictor(f, t, y, h) ==
    LET e1 == evaluar_funcion(f, t, y) IN
    IF ~e1.ok THEN StepFailed(<<<<t, y>>>>)
    ELSE LET f1 == e1.val
             y_pred == FAdd(y, FMul(h, f1))
             t2 == FAdd(t, h)
             e2 == evaluar_funcion(f, t2, y_pred)
         IN  IF ~e2.ok THEN StepFailed(<<<<t, y>>, <<t2, y_pred>>>>)
             ELSE [ok |-> TRUE,
                   y_next |-> FAdd(y, FMul(FDivInt(h, 2), FAdd(f1, y_pred))),
                   pts |-> <<<<t, y>>, <<t2, y_pred>>>>]

HeunStep(f, t, y, h) ==
    LET e1 == evaluar_funcion(f, t, y) IN
    IF ~e1.ok THEN StepFailed(<<<<t, y>>>>)
    ELSE LET f1 == e1.val
             y_pred == FAdd(y, FMul(h, f1))
             t2 == FAdd(t, h)
             e2 == evaluar_funcion(f, t2, y_pred)
         IN  IF ~e2.ok THEN StepFailed(<<<<t, y>>, <<t2, y_pred>>>>)
             ELSE [ok |-> TRUE,
                   y_next |-> FAdd(y, FMul(FDivInt(h, 2), FAdd(f1, e2.val))),
                   pts |-> <<<<t, y>>, <<t2, y_pred>>>>]

\* RK4Step summing k1 + k2 + k3 + k4 with equal weights
RK4StepEqualWeights(f, t, y, h) ==
    LET p1 == <<t, y>>
        e1 == evaluar_funcion(f, t, y)
    IN
    IF ~e1.ok THEN StepFailed(<<p1>>)
    ELSE LET k1 == e1.val
             p2 == <<FAdd(t, FDivInt(h, 2)), FAdd(y, FDivInt(FMul(h, k1), 2))>>
             e2 == evaluar_funcion(f, p2[1], p2[2])
         IN
         IF ~e2.ok THEN StepFailed(<<p1, p2>>)
         ELSE LET k2 == e2.val
                  p3 == <<FAdd(t, FDivInt(h, 2)), FAdd(y, FDivInt(FMul(h, k2), 2))>>
                  e3 == evaluar_funcion(f, p3[1], p3[2])
              IN
              IF ~e3.ok THEN StepFailed(<<p1, p2, p3>>)
              ELSE LET k3 == e3.val
                       p4 == <<FAdd(t, h), FAdd(y, FMul(h, k3))>>
                       e4 == evaluar_funcion(f, p4[1], p4[2])
                   IN
                   IF ~e4.ok THEN StepFailed(<<p1, p2, p3, p4>>)
                   ELSE [ok |-> TRUE,
                         y_next |-> FAdd(y, FMul(FDivInt(h, 6),
                                                 FAdd(FAdd(FAdd(k1, k2), k3), e4.val))),
                         pts |-> <<p1, p2, p3, p4>>]

RK4Step(f, t, y, h) ==
    LET p1 == <<t, y>>
        e1 == evaluar_funcion(f, t, y)
    IN
    IF ~e1.ok THEN StepFailed(<<p1>>)
    ELSE LET k1 == e1.val
             p2 == <<FAdd(t, FDivInt(h, 2)), FAdd(y, FDivInt(FMul(h, k1), 2))>>
             e2 == evaluar_funcion(f, p2[1], p2[2])
         IN
         IF ~e2.ok THEN StepFailed(<<p1, p2>>)
         ELSE LET k2 == e2.val
                  p3 == <<FAdd(t, FDivInt(h, 2)), FAdd(y, FDivInt(FMul(h, k2), 2))>>
                  e3 == evaluar_funcion(f, p3[1], p3[2])
              IN
              IF ~e3.ok THEN StepFailed(<<p1, p2, p3>>)
              ELSE LET k3 == e3.val
                       p4 == <<FAdd(t, h), FAdd(y, FMul(h, k3))>>
                       e4 == evaluar_funcion(f, p4[1], p4[2])
                   IN
                   IF ~e4.ok THEN StepFailed(<<p1, p2, p3, p4>>)
                   ELSE LET k4 == e4.val
                            sum == FAdd(FAdd(FAdd(k1, FMulInt(2, k2)), FMulInt(2, k3)), k4)
                        IN  [ok |-> TRUE,
                             y_next |-> FAdd(y, FMul(FDivInt(h, 6), sum)),
                             pts |-> <<p1, p2, p3, p4>>]

StepOf(s, t, y, h) ==
    CASE s.cls = "EulerSolver" -> EulerStep(s.f, t, y, h)
      [] s.cls = "HeunSolver" -> HeunStep(s.f, t, y, h)
      [] s.cls = "RK4Solver" -> RK4Step(s.f, t, y, h)

\* t_values[i + 1] recomputed as t0 + (i + 1) * h
NextTRecomputed(t0, t, h, k) == FAdd(t0, FMulInt(k + 1, h))

\* t_values[i + 1] = t + h, in the iteration with index k of a solve from t0
NextT(t0, t, h, k) == FAdd(t, h)

\* np.zeros(n) where the code allocates n + 1 entries
InitialArrayShort(n, x0) == [Zeros(n) EXCEPT ![1] = x0]

\* np.zeros(n + 1) with x0 stored at index 0
InitialArray(n, x0) == [Zeros(n + 1) EXCEPT ![1] = x0]

\* What solve leaves behind when an evaluation raises inside its loop: the
\* exception propagates, the arrays are locals of the abandoned frame.
\* solve catching the exception and returning the points computed so far
PropagatePartial(tv, yv, k) ==
    [pc |-> "returned", exc |-> NoExc, ret |-> <<SubSeq(tv, 1, k + 1), SubSeq(yv, 1, k + 1)>>]

Propagate(tv, yv, k) ==
    [pc |-> "raised", exc |-> EvalError, ret |-> <<>>]

-----------------------------------------------------------------------------
\* The solver factory (solvers/__init__.py)

\* AVAILABLE_SOLVERS, in insertion order
AVAILABLE_SOLVERS ==
    <<[key |-> "euler", cls |-> "EulerSolver"],
      [key |-> "heun", cls |-> "HeunSolver"],
      [key |-> "rk4", cls |-> "RK4Solver"]>>

\* AVAILABLE_SOLVERS.keys()
get_available_methods == [k \in 1..Len(AVAILABLE_SOLVERS) |-> AVAILABLE_SOLVERS[k].key]

Range(q) == {q[k] : k \in 1..Len(q)}

\* The method names the model calls get_solver with
MethodNames == {"euler", "Heun", "RK4", "midpoint"}

\* str.lower() on those names
Lower(name) ==
    CASE name = "Heun" -> "heun"
      [] name = "RK4" -> "rk4"
      [] OTHER -> name

\* sep.join(q), as the sequence of its pieces
RECURSIVE Join(_, _)
Join(sep, q) ==
    IF Len(q) = 0 THEN <<>>
    ELSE IF Len(q) = 1 THEN <<q[1]>>
    ELSE <<q[1], sep>> \o Join(sep, Tail(q))

\* The ValueError of get_solver without the list of available methods
UnknownMethodNoList(m) ==
    Raise("ValueError", <<"Método no disponible: ", m>>)

\* The ValueError get_solver raises for a name that is not a key
UnknownMethod(m) ==
    Raise("ValueError",
          <<"Método no disponible: ", m, ". Métodos disponibles: ">>
              \o Join(", ", get_available_methods))

\* get_solver(method_name): [ok, obj, exc]; the class is called with no argument
get_solver(method_name) ==
    LET m == Lower(method_name) IN
    IF m \notin Range(get_available_methods)
    THEN [ok |-> FALSE, obj |-> NoSolver, exc |-> UnknownMethod(m)]
    ELSE LET e == CHOOSE e \in Range(AVAILABLE_SOLVERS) : e.key = m
         IN  Construct(e.cls, <<>>)

-----------------------------------------------------------------------------
\* Analytic solutions and errors (utils/analytic_solution.py)

\* parse_solution(solution_str): [ok, exc].  The lambdified function is tried
\* at 0.0 and any failure there, like any parse failure, becomes a ValueError.
parse_solution(solution_str) ==
    CASE solution_str = "exp(t)" -> [ok |-> TRUE, exc |-> NoExc]
      [] solution_str = "1/t" ->
            [ok |-> FALSE,
             exc |-> Raise("ValueError",
                           <<"Error al parsear la solución: ",
                             "La solución no puede ser evaluada: ",
                             "float division by zero">>)]
      [] OTHER ->
            [ok |-> FALSE,
             exc |-> Raise("ValueError", <<"Error al parsear la solución: ", solution_str>>)]

\* np.abs(a)
NpAbs(a) == IF a.c = "nan" THEN a ELSE [c |-> a.c, v |-> Abs(a.v)]

\* a / b between numpy floats under errstate(divide='ignore', invalid='ignore'):
\* x/0 is an infinity, 0/0 is NaN, nothing is raised.
NpDiv(a, b) ==
    IF b.c = "fin" /\ b.v = 0
    THEN IF a.c = "nan" \/ (a.c = "fin" /\ a.v = 0) THEN NaN ELSE Inf(SignOf(a))
    ELSE FDiv(a, b).val

\* np.nan_to_num(a): NaN becomes 0.0, an infinity becomes the largest finite
\* float of its sign.
NanToNum(a) ==
    CASE a.c = "nan" -> Zero
      [] a.c = "inf" -> Fin(a.v * MaxFinite)
      [] OTHER -> a

\* calculate_errors(y_numeric, y_analytic) on arrays of one length:
\* <<error_abs, error_rel>>
calculate_errors(y_numeric, y_analytic) ==
    LET error_abs == [k \in 1..Len(y_numeric) |-> NpAbs(FSub(y_numeric[k], y_analytic[k]))]
        error_rel == [k \in 1..Len(y_numeric) |->
                         NanToNum(NpAbs(NpDiv(error_abs[k], y_analytic[k])))]
    IN  <<error_abs, error_rel>>

-----------------------------------------------------------------------------
\* The convergence analyser (utils/convergence_analysis.py)

\* solver.solve(*a): solve(self, t0, y0, h, n) takes exactly four arguments
\* besides self; the exception the call raises when it is given another number.
SolveArity(a) ==
    IF Len(a) # 4
    THEN Raise("TypeError", <<"solve() takes 5 positional arguments but ",
                              IF Len(a) = 5 THEN "6" ELSE "another number", " were given">>)
    ELSE NoExc

\* np.linspace(start, stop, num): num evenly spaced floats, the last one stop
Linspace(start, stop, num) ==
    IF num = 1 THEN <<start>>
    ELSE LET step == FDivInt(FSub(stop, start), num - 1) IN
         [k \in 1..num |->
             IF k = num THEN stop ELSE FAdd(FMul(Fin((k - 1) * UNIT), step), start)]

\* analyze_step_size catching the exception and going on: a result, no error
SweepSkip(e) == [ok |-> TRUE, ret |-> <<<<>>, <<>>, <<>>>>, exc |-> NoExc, calls |-> <<>>]

\* An exception raised inside analyze_step_size: the function has no handler,
\* so the call ends with it and its locals (errors, the solves made) are lost.
SweepAbort(e) == [ok |-> FALSE, ret |-> <<>>, exc |-> e, calls |-> <<>>]

\* analyze_step_size(method_name, func_str, t0, y0, t_end, solution_str,
\* step_sizes) with step_sizes a list and log_scale left at True:
\* [ok, ret, exc, calls], ret = <<step_sizes, errors, order>> with order <<>>
\* for None, and calls the solves made, each [method, t0, y0, h, n, ret].
\* The first pass of the loop calls solver.solve(func_str, t0, y0, h, n).
analyze_step_size(method_name, func_str, t0, y0, t_end, solution_str, step_sizes) ==
    LET g == get_solver(method_name) IN
    IF ~g.ok THEN SweepAbort(g.exc)
    ELSE IF Len(step_sizes) = 0
    THEN [ok |-> TRUE, ret |-> <<step_sizes, <<>>, <<>>>>, exc |-> NoExc, calls |-> <<>>]
    ELSE LET h == step_sizes[1]
             q == FDiv(FSub(t_end, t0), h)
         IN  IF ~q.ok
             THEN SweepAbort(Raise("ZeroDivisionError", <<"float division by zero">>))
             ELSE IF q.val.c = "nan"
             THEN SweepAbort(Raise("ValueError", <<"cannot convert float NaN to integer">>))
             ELSE IF q.val.c = "inf"
             THEN SweepAbort(Raise("OverflowError",
                                   <<"cannot convert float infinity to integer">>))
             ELSE SweepAbort(SolveArity(<<func_str, t0, y0, h,
                                          [c |-> "int", v |-> IntOf(q.val)]>>))

\* The sweeps the model asks for: over [0, 2], with step sizes 1 and 1.5 (1.5
\* does not divide the interval), with one step size given twice, with a single
\* step size, and with none.
Sweeps ==
    {[method_name |-> "RK4", solution_str |-> "exp(t)",
      step_sizes |-> <<Fin(UNIT), Fin(UNIT + UNIT \div 2)>>],
     [method_name |-> "RK4", solution_str |-> "",
      step_sizes |-> <<Fin(UNIT), Fin(UNIT + UNIT \div 2)>>],
     [method_name |-> "euler", solution_str |-> "", step_sizes |-> <<Fin(UNIT), Fin(UNIT)>>],
     [method_name |-> "euler", solution_str |-> "", step_sizes |-> <<Fin(UNIT)>>],
     [method_name |-> "midpoint", solution_str |-> "", step_sizes |-> <<>>]}

\* compare_methods(func_str, t0, y0, t_end, solution_str, methods, h), methods
\* being [none |-> TRUE] for None or [none |-> FALSE, list |-> names]:
\* [ok, ret, exc, calls], ret = <<t_values, results, analytic_values>>.  With no
\* method the loop body never runs and t_values is read before any assignment.
compare_methods(func_str, t0, y0, t_end, solution_str, methods, h) ==
    LET ms == IF methods.none THEN get_available_methods ELSE methods.list
        q == FDiv(FSub(t_end, t0), h)
        unbound == Raise("UnboundLocalError",
                         <<"local variable 't_values' referenced before assignment">>)
    IN  IF ~q.ok
        THEN SweepAbort(Raise("ZeroDivisionError", <<"float division by zero">>))
        ELSE IF q.val.c = "nan"
        THEN SweepAbort(Raise("ValueError", <<"cannot convert float NaN to integer">>))
        ELSE IF q.val.c = "inf"
        THEN SweepAbort(Raise("OverflowError", <<"cannot convert float infinity to integer">>))
        ELSE IF Len(ms) > 0
        THEN LET g == get_solver(ms[1]) IN
             IF ~g.ok THEN SweepAbort(g.exc)
             ELSE SweepAbort(SolveArity(<<func_str, t0, y0, h,
                                          [c |-> "int", v |-> IntOf(q.val)]>>))
        ELSE IF solution_str # ""
        THEN LET p == parse_solution(solution_str) IN
             IF ~p.ok THEN SweepAbort(p.exc) ELSE SweepAbort(unbound)
        ELSE SweepAbort(unbound)

\* The comparisons the model asks for
Comparisons ==
    {[methods |-> [none |-> TRUE, list |-> <<>>], solution_str |-> "exp(t)"],
     [methods |-> [none |-> FALSE, list |-> <<"euler", "RK4">>], solution_str |-> "1/t"],
     [methods |-> [none |-> FALSE, list |-> <<"midpoint">>], solution_str |-> ""],
     [methods |-> [none |-> FALSE, list |-> <<>>], solution_str |-> "1/t"]}

-----------------------------------------------------------------------------
\* The arguments the caller may hold for solve

T0s == {Fin(-2 * UNIT), Fin(2^PREC), NaN, NotANumber}
Y0s == {Fin(UNIT), Inf(-1), NotANumber}
Hs == {Fin(0), Fin(-UNIT), Fin(1), Fin(UNIT), NaN, Inf(1)}
Ns == {[c |-> "int", v |-> k] : k \in 0..MaxN} \cup {[c |-> "float", v |-> 2]}

NoArgs == [t0 |-> Zero, y0 |-> Zero, h |-> Zero, n |-> [c |-> "int", v |-> 0]]

\* The arguments of the solve the caller runs between two solves with `given`
Other == [t0 |-> Zero, y0 |-> Fin(UNIT), h |-> Fin(UNIT), n |-> [c |-> "int", v |-> 1]]

\* Nothing remembered of a solver constructed as self
Fresh(self) == [self |-> self, count |-> 0, ret |-> <<>>, between |-> FALSE]

Init ==
    /\ given \in [t0 : T0s, y0 : Y0s, h : Hs, n : Ns]
    /\ solver = NoSolver
    /\ op = "none"
    /\ pc = "idle"
    /\ args = NoArgs
    /\ i = 0
    /\ t_values = <<>>
    /\ y_values = <<>>
    /\ evals = <<>>
    /\ ret = <<>>
    /\ exc = NoExc
    /\ calls = <<>>
    /\ prev = Fresh(NoSolver)
    /\ frames = <<>>
    /\ app = NoApp

\* No call is in progress: the program is single-threaded and synchronous.
Quiet == pc # "loop"

\* solver = cls(funcion)
New(cls, funcion) ==
    /\ Quiet
    /\ LET r == Construct(cls, <<funcion>>) IN
       /\ solver' = (IF r.ok THEN r.obj ELSE solver)
       /\ prev' = (IF r.ok THEN Fresh(r.obj) ELSE prev)
       /\ pc' = (IF r.ok THEN "returned" ELSE "raised")
       /\ exc' = r.exc
    /\ op' = "new"
    /\ args' = NoArgs
    /\ i' = 0
    /\ t_values' = <<>>
    /\ y_values' = <<>>
    /\ evals' = <<>>
    /\ ret' = <<>>
    /\ calls' = <<>>
    /\ UNCHANGED <<app, given, frames>>

\* solver.solve(t0, y0, h, n), up to the for loop
SolveCall(t0, y0, h, n) ==
    /\ Quiet
    /\ solver # NoSolver
    /\ op' = "solve"
    /\ args' = [t0 |-> t0, y0 |-> y0, h |-> h, n |-> n]
    /\ i' = 0
    /\ evals' = <<>>
    /\ ret' = <<>>
    /\ LET e == _validar_parametros(t0, y0, h, n) IN
       /\ exc' = e
       /\ IF e # NoExc
          THEN /\ pc' = "raised"
               /\ t_values' = <<>>
               /\ y_values' = <<>>
          ELSE /\ pc' = "loop"
               /\ t_values' = InitialArray(n.v, t0)
               /\ y_values' = InitialArray(n.v, y0)
    /\ calls' = <<>>
    /\ UNCHANGED <<app, given, solver, prev, frames>>

\* evaluar_funcion keeping a substituted (now constant) expression in self.f
AfterEvalSubstituted(self) == [self EXCEPT !.f = "Integer(0)"]

\* self after evaluar_funcion: subs returns a new expression, self.f is not
\* assigned.
AfterEval(self) == self

\* A loop that takes the same index again
NextIndexStuck(k) == k

\* The index range(n) yields after k
NextIndex(k) == k + 1

\* one iteration of "for i in range(n)"
SolveStep ==
    /\ op = "solve" /\ pc = "loop"
    /\ i < args.n.v
    /\ LET t == t_values[i + 1]
           y == y_values[i + 1]
           r == StepOf(solver, t, y, args.h)
       IN
       /\ evals' = evals \o r.pts
       /\ IF r.ok
          THEN /\ t_values' = [t_values EXCEPT ![i + 2] = NextT(args.t0, t, args.h, i)]
               /\ y_values' = [y_values EXCEPT ![i + 2] = r.y_next]
               /\ i' = NextIndex(i)
               /\ UNCHANGED <<pc, exc, ret>>
          ELSE LET o == Propagate(t_values, y_values, i) IN
               /\ pc' = o.pc
               /\ exc' = o.exc
               /\ ret' = o.ret
               /\ t_values' = <<>>
               /\ y_values' = <<>>
               /\ UNCHANGED i
    /\ solver' = AfterEval(solver)
    /\ UNCHANGED <<app, given, op, args, calls, prev, frames>>

\* What the caller remembers once solve(a) has returned r
Remember(p, a, r) ==
    IF a = given
    THEN IF p.count = 0 THEN [p EXCEPT !.count = 1, !.ret = r]
         ELSE [p EXCEPT !.count = 2]
    ELSE IF p.count = 0 THEN p
         ELSE [p EXCEPT !.between = TRUE]

\* return t_values, y_values
SolveReturn ==
    /\ op = "solve" /\ pc = "loop"
    /\ i = args.n.v
    /\ pc' = "returned"
    /\ ret' = <<t_values, y_values>>
    /\ t_values' = <<>>
    /\ y_values' = <<>>
    /\ prev' = Remember(prev, args, <<t_values, y_values>>)
    /\ UNCHANGED <<app, given, solver, op, args, i, evals, exc, calls, frames>>

\* get_solver(method_name)
GetSolver(method_name) ==
    /\ Quiet
    /\ op' = "get_solver"
    /\ args' = [method_name |-> method_name]
    /\ LET r == get_solver(method_name) IN
       /\ pc' = (IF r.ok THEN "returned" ELSE "raised")
       /\ ret' = (IF r.ok THEN <<r.obj>> ELSE <<>>)
       /\ exc' = r.exc
    /\ i' = 0
    /\ t_values' = <<>>
    /\ y_values' = <<>>
    /\ evals' = <<>>
    /\ calls' = <<>>
    /\ UNCHANGED <<app, given, solver, prev, frames>>

\* ConvergenceAnalysis().analyze_step_size(method_name, "y", 0, 1, 2,
\*                                          solution_str, step_sizes)
AnalyzeStepSize(method_name, solution_str, step_sizes) ==
    /\ Quiet
    /\ op' = "analyze_step_size"
    /\ args' = [method_name |-> method_name, func_str |-> "y", t0 |-> Zero,
                y0 |-> Fin(UNIT), t_end |-> Fin(2 * UNIT),
                solution_str |-> solution_str, step_sizes |-> step_sizes]
    /\ LET r == analyze_step_size(method_name, "y", Zero, Fin(UNIT), Fin(2 * UNIT),
                                  solution_str, step_sizes)
       IN
       /\ pc' = (IF r.ok THEN "returned" ELSE "raised")
       /\ ret' = r.ret
       /\ exc' = r.exc
       /\ calls' = r.calls
    /\ i' = 0
    /\ t_values' = <<>>
    /\ y_values' = <<>>
    /\ evals' = <<>>
    /\ UNCHANGED <<app, given, solver, prev, frames>>

Next ==
    \/ \E s \in Sweeps : AnalyzeStepSize(s.method_name, s.solution_str, s.step_sizes)
    \/ \E method_name \in MethodNames : GetSolver(method_name)
    \/ \E cls \in Classes, funcion \in Funciones : New(cls, funcion)
    \/ \E a \in {given, Other} : SolveCall(a.t0, a.y0, a.h, a.n)
    \/ SolveStep
    \/ SolveReturn

Spec == Init /\ [][Next]_vars

-----------------------------------------------------------------------------
\* Solves with valid arguments, under fairness: a call that has started goes
\* on running, nothing else runs in its thread until it has ended.

ValidInputs ==
    [t0 : {Fin(-2 * UNIT), Fin(2^PREC)}, y0 : {Fin(UNIT)}, h : {Fin(1), Fin(UNIT)},
     n : {[c |-> "int", v |-> k] : k \in 1..MaxN}]

InitValid ==
    /\ given \in ValidInputs
    /\ solver = NoSolver
    /\ op = "none"
    /\ pc = "idle"
    /\ args = NoArgs
    /\ i = 0
    /\ t_values = <<>>
    /\ y_values = <<>>
    /\ evals = <<>>
    /\ ret = <<>>
    /\ exc = NoExc
    /\ calls = <<>>
    /\ prev = Fresh(NoSolver)
    /\ frames = <<>>
    /\ app = NoApp

NextSolve ==
    \/ \E cls \in Classes, funcion \in Funciones : New(cls, funcion)
    \/ \E a \in {given, Other} : SolveCall(a.t0, a.y0, a.h, a.n)
    \/ SolveStep
    \/ SolveReturn

\* What one pass of the loop body does to the control state of solve: the
\* index moves on, or the exception of an evaluation leaves solve.  Under
\* NextSolve the steps that satisfy it are exactly the SolveStep steps.
LoopIteration ==
    /\ op = "solve" /\ pc = "loop"
    /\ i < args.n.v
    /\ \/ i' = NextIndex(i) /\ pc' = pc
       \/ i' = i /\ pc' = "raised"

\* The interpreter keeps executing a running solve: a pass of the loop that
\* can be taken is taken, and so is the return after the last pass.
SpecFair ==
    /\ InitValid
    /\ [][NextSolve]_vars
    /\ WF_<<i, pc>>(LoopIteration)
    /\ WF_vars(SolveReturn)

-----------------------------------------------------------------------------
\* The utilities called on their own: method comparison and error computation

\* The values the compared arrays hold
ErrValues == {Zero, Fin(UNIT), Fin(-2 * UNIT), Inf(1)}

\* What the caller of the utilities holds: the interval end and step of a
\* comparison over [0, t_end], and two arrays of one length.
UtilInputs ==
    [t_end : {Fin(2 * UNIT), Zero}, h : {Fin(UNIT), Zero},
     y_numeric : [1..2 -> ErrValues], y_analytic : [1..2 -> ErrValues]]

InitUtils ==
    /\ given \in UtilInputs
    /\ solver = NoSolver
    /\ op = "none"
    /\ pc = "idle"
    /\ args = NoArgs
    /\ i = 0
    /\ t_values = <<>>
    /\ y_values = <<>>
    /\ evals = <<>>
    /\ ret = <<>>
    /\ exc = NoExc
    /\ calls = <<>>
    /\ prev = Fresh(NoSolver)
    /\ frames = <<>>
    /\ app = NoApp

\* ConvergenceAnalysis().compare_methods("y", 0, 1, t_end, solution_str, methods, h)
CompareMethods(t_end, solution_str, methods, h) ==
    /\ op' = "compare_methods"
    /\ args' = [func_str |-> "y", t0 |-> Zero, y0 |-> Fin(UNIT), t_end |-> t_end,
                solution_str |-> solution_str, methods |-> methods, h |-> h]
    /\ LET r == compare_methods("y", Zero, Fin(UNIT), t_end, solution_str, methods, h) IN
       /\ pc' = (IF r.ok THEN "returned" ELSE "raised")
       /\ ret' = r.ret
       /\ exc' = r.exc
       /\ calls' = r.calls
    /\ UNCHANGED <<app, given, solver, i, t_values, y_values, evals, prev, frames>>

\* AnalyticSolution().calculate_errors(y_numeric, y_analytic)
CalculateErrors(y_numeric, y_analytic) ==
    /\ op' = "calculate_errors"
    /\ args' = [y_numeric |-> y_numeric, y_analytic |-> y_analytic]
    /\ pc' = "returned"
    /\ ret' = calculate_errors(y_numeric, y_analytic)
    /\ exc' = NoExc
    /\ calls' = <<>>
    /\ UNCHANGED <<app, given, solver, i, t_values, y_values, evals, prev, frames>>

NextUtils ==
    \/ \E c \in Comparisons : CompareMethods(given.t_end, c.solution_str, c.methods, given.h)
    \/ CalculateErrors(given.y_numeric, given.y_analytic)

SpecUtils == InitUtils /\ [][NextUtils]_vars

-----------------------------------------------------------------------------
\* Two solve calls in two threads.  Thread 1 calls solve on the instance
\* `solver`; thread 2 calls it on that same instance or on one of its own.
\* The threads are switched between iterations of the for loop.

Threads == {1, 2}

\* solve(a) run to its end on self with nothing else running: [pc, ret, exc]
RECURSIVE RunAlone(_, _, _, _, _)
RunAlone(self, a, k, tv, yv) ==
    IF k = a.n.v
    THEN [pc |-> "returned", ret |-> <<tv, yv>>, exc |-> NoExc]
    ELSE LET r == StepOf(self, tv[k + 1], yv[k + 1], a.h) IN
         IF ~r.ok
         THEN Propagate(tv, yv, k)
         ELSE RunAlone(self, a, k + 1,
                       [tv EXCEPT ![k + 2] = NextT(a.t0, tv[k + 1], a.h, k)],
                       [yv EXCEPT ![k + 2] = r.y_next])

SolveAlone(self, a) ==
    LET e == _validar_parametros(a.t0, a.y0, a.h, a.n) IN
    IF e # NoExc
    THEN [pc |-> "raised", ret |-> <<>>, exc |-> e]
    ELSE RunAlone(self, a, 0, InitialArray(a.n.v, a.t0), InitialArray(a.n.v, a.y0))

\* The arguments the threads call solve with
ThreadArgs ==
    {[t0 |-> Fin(-2 * UNIT), y0 |-> Fin(UNIT), h |-> Fin(UNIT), n |-> [c |-> "int", v |-> k]] :
        k \in 1..MaxN}
    \cup {[t0 |-> Zero, y0 |-> Fin(2 * UNIT), h |-> Fin(UNIT \div 2), n |-> [c |-> "int", v |-> 2]]}

\* The instances thread 1 (and thread 2, when it shares) works on
SharedSolvers == {Construct(cls, <<funcion>>).obj : cls \in Classes, funcion \in {"y", "1/t"}}

\* The instance thread 2 works on when it has its own
OwnSolver == Construct("HeunSolver", <<"y">>).obj

\* The locals of a solve call that has not started
IdleFrame ==
    [pc |-> "idle", args |-> NoArgs, i |-> 0, t_values |-> <<>>, y_values |-> <<>>,
     ret |-> <<>>, exc |-> NoExc, overlapped |-> FALSE]

InitThreads ==
    /\ given \in [shared : SharedSolvers, own : {OwnSolver}, on : {"shared", "own"},
                   args : [Threads -> ThreadArgs]]
    /\ solver = given.shared
    /\ frames = [k \in Threads |-> IdleFrame]
    /\ op = "none"
    /\ pc = "idle"
    /\ args = NoArgs
    /\ i = 0
    /\ t_values = <<>>
    /\ y_values = <<>>
    /\ evals = <<>>
    /\ ret = <<>>
    /\ exc = NoExc
    /\ calls = <<>>
    /\ prev = Fresh(NoSolver)
    /\ app = NoApp

\* Thread k's solve reads its loop variables from the frame of thread 1, as if
\* i, t_values and y_values were kept in one place for all calls
LocalsShared(fr, k) == fr[1]

\* i, t_values, y_values, t, y are locals of the call: each call has its own
Locals(fr, k) == fr[k]

\* Thread k's self
SelfOf(k) == IF k = 1 \/ given.on = "shared" THEN solver ELSE given.own

\* thread k: solver.solve(t0, y0, h, n), up to the for loop
ThreadCall(k) ==
    /\ Locals(frames, k).pc = "idle"
    /\ LET a == given.args[k]
           e == _validar_parametros(a.t0, a.y0, a.h, a.n)
       IN  frames' = [frames EXCEPT ![k] =
                         IF e # NoExc
                         THEN [IdleFrame EXCEPT !.pc = "raised", !.args = a, !.exc = e]
                         ELSE [IdleFrame EXCEPT !.pc = "loop", !.args = a,
                                                !.t_values = InitialArray(a.n.v, a.t0),
                                                !.y_values = InitialArray(a.n.v, a.y0)]]
    /\ UNCHANGED <<app, given, solver, op, pc, args, i, t_values, y_values, evals, ret, exc,
                   calls, prev>>

\* thread k: one iteration of "for i in range(n)"
ThreadStep(k) ==
    LET me == Locals(frames, k) IN
    /\ me.pc = "loop"
    /\ me.i < me.args.n.v
    /\ LET t == me.t_values[me.i + 1]
           y == me.y_values[me.i + 1]
           r == StepOf(SelfOf(k), t, y, me.args.h)
           seen == me.overlapped \/ \E o \in Threads \ {k} : frames[o].pc = "loop"
       IN  frames' = [frames EXCEPT ![k] =
                         IF r.ok
                         THEN [me EXCEPT
                                 !.t_values = [me.t_values EXCEPT ![me.i + 2] =
                                                  NextT(me.args.t0, t, me.args.h, me.i)],
                                 !.y_values = [me.y_values EXCEPT ![me.i + 2] = r.y_next],
                                 !.i = me.i + 1,
                                 !.overlapped = seen]
                         ELSE LET o == Propagate(me.t_values, me.y_values, me.i) IN
                              [me EXCEPT !.pc = o.pc, !.exc = o.exc, !.ret = o.ret,
                                         !.t_values = <<>>, !.y_values = <<>>,
                                         !.overlapped = seen]]
    /\ solver' = (IF SelfOf(k) = solver THEN AfterEval(solver) ELSE solver)
    /\ UNCHANGED <<app, given, op, pc, args, i, t_values, y_values, evals, ret, exc, calls, prev>>

\* thread k: return t_values, y_values
ThreadReturn(k) ==
    LET me == Locals(frames, k) IN
    /\ me.pc = "loop"
    /\ me.i = me.args.n.v
    /\ frames' = [frames EXCEPT ![k] =
                      [me EXCEPT !.pc = "returned", !.ret = <<me.t_values, me.y_values>>,
                                 !.t_values = <<>>, !.y_values = <<>>]]
    /\ UNCHANGED <<app, given, solver, op, pc, args, i, t_values, y_values, evals, ret, exc,
                   calls, prev>>

NextThreads ==
    \/ \E k \in Threads : ThreadCall(k)
    \/ \E k \in Threads : ThreadStep(k)
    \/ \E k \in Threads : ThreadReturn(k)

SpecThreads == InitThreads /\ [][NextThreads]_vars

-----------------------------------------------------------------------------
\* The solvers on y' = y with decimal step sizes, in enclosing arithmetic.
\*
\* The reduced floats above are too coarse to tell 7.37 from 7.40, so here a
\* number is an interval [lo, hi] of integers counted in units of 1/DSCALE that
\* encloses the float64 value the code holds.  Every operation rounds the exact
\* bounds outwards and widens them by one more unit; the float64 rounding of
\* one operation (relative 2^-53, on values below 100) is far smaller than one
\* unit, so the enclosure is kept.  h is the float nearest num/den.

DSCALE == 10^7

Dec(k) == [lo |-> k * DSCALE, hi |-> k * DSCALE]

\* floor(a / d) and ceil(a / d), d > 0
FloorDiv(a, d) == a \div d
CeilDiv(a, d) == -((-a) \div d)

\* a + b
DAdd(a, b) == [lo |-> a.lo + b.lo - 1, hi |-> a.hi + b.hi + 1]

\* (num/den) * a, num > 0, den > 0
DScale(num, den, a) ==
    [lo |-> FloorDiv(num * a.lo, den) - 1, hi |-> CeilDiv(num * a.hi, den) + 1]

\* h, h * a, (h/k) * a and (h * a) / k for h = num/den and the literal k
DStep(h) == DScale(h.num, h.den, Dec(1))
DMul(h, a) == DScale(h.num, h.den, a)
DMulFrac(h, k, a) == DScale(h.num, k * h.den, a)
DHalf(a) == DScale(1, 2, a)
DTwice(a) == DScale(2, 1, a)

\* y_next of one Euler step
DEulerStep(f, t, y, h) ==
    DAdd(y, DMul(h, evaluar_funcion(f, t, y).val))

\* Heun without its corrector: the predictor is taken as y_next
DHeunStepPredictorOnly(f, t, y, h) ==
    DAdd(y, DMul(h, evaluar_funcion(f, t, y).val))

\* y_next of one Heun step
DHeunStep(f, t, y, h) ==
    LET f1 == evaluar_funcion(f, t, y).val
        y_pred == DAdd(y, DMul(h, f1))
        f2 == evaluar_funcion(f, DAdd(t, DStep(h)), y_pred).val
    IN  DAdd(y, DMulFrac(h, 2, DAdd(f1, f2)))

\* y_next of one RK4 step
DRK4Step(f, t, y, h) ==
    LET th == DAdd(t, DHalf(DStep(h)))
        k1 == evaluar_funcion(f, t, y).val
        k2 == evaluar_funcion(f, th, DAdd(y, DHalf(DMul(h, k1)))).val
        k3 == evaluar_funcion(f, th, DAdd(y, DHalf(DMul(h, k2)))).val
        k4 == evaluar_funcion(f, DAdd(t, DStep(h)), DAdd(y, DMul(h, k3))).val
    IN  DAdd(y, DMulFrac(h, 6, DAdd(DAdd(DAdd(k1, DTwice(k2)), DTwice(k3)), k4)))

DStepOf(s, t, y, h) ==
    CASE s.cls = "EulerSolver" -> DEulerStep(s.f, t, y, h)
      [] s.cls = "HeunSolver" -> DHeunStep(s.f, t, y, h)
      [] s.cls = "RK4Solver" -> DRK4Step(s.f, t, y, h)

\* The scenarios: y' = y from (0, 1) over [0, 2] with h = 1/10, 1/20, 1/40
Scenarios ==
    {[cls |-> cls, t0 |-> 0, y0 |-> 1, h |-> [num |-> 1, den |-> 10 * k], n |-> 20 * k] :
        cls \in Classes, k \in {1, 2, 4}}

InitScenario ==
    /\ given \in Scenarios
    /\ solver = Construct(given.cls, <<"y">>).obj
    /\ op = "none"
    /\ pc = "idle"
    /\ args = NoArgs
    /\ i = 0
    /\ t_values = <<>>
    /\ y_values = <<>>
    /\ evals = <<>>
    /\ ret = <<>>
    /\ exc = NoExc
    /\ calls = <<>>
    /\ prev = Fresh(NoSolver)
    /\ frames = <<>>
    /\ app = NoApp

\* solver.solve(t0, y0, h, n), up to the for loop; the arguments are valid
ScenarioCall ==
    /\ pc = "idle"
    /\ op' = "solve"
    /\ pc' = "loop"
    /\ args' = [t0 |-> given.t0, y0 |-> given.y0, h |-> given.h, n |-> given.n]
    /\ i' = 0
    /\ t_values' = [[k \in 1..(given.n + 1) |-> Dec(0)] EXCEPT ![1] = Dec(given.t0)]
    /\ y_values' = [[k \in 1..(given.n + 1) |-> Dec(0)] EXCEPT ![1] = Dec(given.y0)]
    /\ UNCHANGED <<app, given, solver, evals, ret, exc, calls, prev, frames>>

\* one iteration of "for i in range(n)"
ScenarioStep ==
    /\ op = "solve" /\ pc = "loop"
    /\ i < args.n
    /\ LET t == t_values[i + 1]
           y == y_values[i + 1]
       IN  /\ y_values' = [y_values EXCEPT ![i + 2] = DStepOf(solver, t, y, args.h)]
           /\ t_values' = [t_values EXCEPT ![i + 2] = DAdd(t, DStep(args.h))]
    /\ i' = i + 1
    /\ solver' = AfterEval(solver)
    /\ UNCHANGED <<app, given, op, pc, args, evals, ret, exc, calls, prev, frames>>

\* return t_values, y_values
ScenarioReturn ==
    /\ op = "solve" /\ pc = "loop"
    /\ i = args.n
    /\ pc' = "returned"
    /\ ret' = <<t_values, y_values>>
    /\ t_values' = <<>>
    /\ y_values' = <<>>
    /\ UNCHANGED <<app, given, solver, op, args, i, evals, exc, calls, prev, frames>>

NextScenario ==
    \/ ScenarioCall
    \/ ScenarioStep
    \/ ScenarioReturn

SpecScenario == InitScenario /\ [][NextScenario]_vars

-----------------------------------------------------------------------------
\* The window (main.py).  app holds the entry fields as the strings typed into
\* them, the rows of the results table (tree), the last error dialog shown
\* (messagebox), the status line and the log.

MaxLog == 3    \* log lines a window holds before the model stops calculating

\* float(s): [ok, val]; decimal strings are read to the nearest float of the
\* model that keeps their sign, anything else raises ValueError.
ParseFloat(s) ==
    CASE s = "0" -> [ok |-> TRUE, val |-> Zero]
      [] s = "1" -> [ok |-> TRUE, val |-> Fin(UNIT)]
      [] s = "0.1" -> [ok |-> TRUE, val |-> Fin(1)]
      [] s = "-1" -> [ok |-> TRUE, val |-> Fin(-UNIT)]
      [] s = "2.5" -> [ok |-> TRUE, val |-> Round(5 * UNIT, 2)]
      [] s = "20" -> [ok |-> TRUE, val |-> Round(20 * UNIT, 1)]
      [] OTHER -> [ok |-> FALSE, val |-> NaN]

\* int(s): [ok, val]; only strings of digits with an optional sign are read
\* ("2.5" raises ValueError).
ParseInt(s) ==
    CASE s = "0" -> [ok |-> TRUE, val |-> 0]
      [] s = "1" -> [ok |-> TRUE, val |-> 1]
      [] s = "-1" -> [ok |-> TRUE, val |-> -1]
      [] s = "20" -> [ok |-> TRUE, val |-> 20]
      [] OTHER -> [ok |-> FALSE, val |-> 0]

\* The dialog messagebox.showerror(title, text) puts on screen
ShowError(text) == [title |-> "Error", text |-> text]
NoDialog == [title |-> "", text |-> <<>>]

\* validar_entradas(): [ok, dialog]
validar_entradas(w) ==
    IF "" \in {w.var_funcion, w.var_t_inicial, w.var_y_inicial, w.var_paso, w.var_num_pasos}
    THEN [ok |-> FALSE, dialog |-> ShowError(<<"Todos los campos son obligatorios.">>)]
    ELSE IF \/ ~ParseFloat(w.var_t_inicial).ok
            \/ ~ParseFloat(w.var_y_inicial).ok
            \/ ~ParseFloat(w.var_paso).ok
            \/ ~ParseInt(w.var_num_pasos).ok
    THEN [ok |-> FALSE, dialog |-> ShowError(<<"Los valores deben ser numéricos válidos.">>)]
    ELSE IF FLe(ParseFloat(w.var_paso).val, Zero)
    THEN [ok |-> FALSE,
          dialog |-> ShowError(<<"El tamaño de paso debe ser mayor que cero.">>)]
    ELSE IF ParseInt(w.var_num_pasos).val <= 0
    THEN [ok |-> FALSE,
          dialog |-> ShowError(<<"El número de pasos debe ser mayor que cero.">>)]
    ELSE [ok |-> TRUE, dialog |-> NoDialog]

\* f"{x:.6f}": the text of a table cell
Format6f(x) == [fmt |-> ".6f", of |-> x]

\* mostrar_resultados(t_values, y_values): the table is emptied, then filled
\* with one row per index.
mostrar_resultados(w, tv, yv) ==
    [w EXCEPT !.tree = [k \in 1..Len(tv) |-> <<Format6f(tv[k]), Format6f(yv[k])>>]]

\* calcular shows the initial point in the table before it solves
TreeWithInitialPoint(w) ==
    mostrar_resultados(w, <<ParseFloat(w.var_t_inicial).val>>,
                          <<ParseFloat(w.var_y_inicial).val>>).tree

\* What calcular does to the table before the solver is created: nothing
TreeBeforeSolve(w) == w.tree

\* The except branch of calcular: dialog, log line, status
CalculoFallido(w, e) ==
    [w EXCEPT !.messagebox = ShowError(<<"Error al calcular: ">> \o e.msg),
              !.log_text = Append(@, <<"ERROR: ">> \o e.msg),
              !.status_label = "Error en el cálculo"]

\* calcular(): the window afterwards.  HeunSolver() and EulerSolver() are
\* called with no argument; solve is called with five arguments, so that it
\* raises before its body runs and mostrar_resultados is not reached.
calcular(w) ==
    LET v == validar_entradas(w) IN
    IF ~v.ok THEN [w EXCEPT !.messagebox = v.dialog]
    ELSE LET w1 == [w EXCEPT !.status_label = "Calculando...",
                             !.tree = TreeBeforeSolve(w)]
             c == Construct(IF w.var_metodo = "heun" THEN "HeunSolver" ELSE "EulerSolver",
                            <<>>)
         IN
         IF ~c.ok THEN CalculoFallido(w1, c.exc)
         ELSE CalculoFallido(w1, SolveArity(<<w.var_funcion,
                                              ParseFloat(w.var_t_inicial).val,
                                              ParseFloat(w.var_y_inicial).val,
                                              ParseFloat(w.var_paso).val,
                                              ParseInt(w.var_num_pasos).val>>))

\* limpiar(): fields, table and log are emptied
limpiar(w) ==
    [w EXCEPT !.var_funcion = "", !.var_t_inicial = "", !.var_y_inicial = "",
              !.var_paso = "", !.var_num_pasos = "", !.tree = <<>>,
              !.log_text = <<<<"Todos los datos han sido limpiados">>>>,
              !.status_label = "Datos limpiados"]

\* The fields of the window and the texts the user types into them
Campos == {"var_funcion", "var_t_inicial", "var_y_inicial", "var_paso", "var_num_pasos",
           "var_metodo"}
Textos(campo) ==
    CASE campo = "var_funcion" -> {"", "y"}
      [] campo = "var_t_inicial" -> {"0", "abc"}
      [] campo = "var_y_inicial" -> {"1"}
      [] campo = "var_paso" -> {"0.1", "0", "-1"}
      [] campo = "var_num_pasos" -> {"20", "0", "2.5", "1"}
      [] campo = "var_metodo" -> {"heun", "euler"}

\* EDOSolverApp(root): the example "Crecimiento exponencial" is loaded
InitUI ==
    /\ app = [layer |-> "ui", var_funcion |-> "y", var_t_inicial |-> "0",
              var_y_inicial |-> "1", var_paso |-> "0.1", var_num_pasos |-> "20",
              var_metodo |-> "heun", tree |-> <<>>, messagebox |-> NoDialog,
              status_label |-> "Ejemplo cargado",
              log_text |-> <<<<"Ejemplo cargado: ", "Crecimiento exponencial">>>>]
    /\ given = [t0 |-> Zero, y0 |-> Zero, h |-> Zero, n |-> [c |-> "int", v |-> 0]]
    /\ solver = NoSolver
    /\ op = "none"
    /\ pc = "idle"
    /\ args = NoArgs
    /\ i = 0
    /\ t_values = <<>>
    /\ y_values = <<>>
    /\ evals = <<>>
    /\ ret = <<>>
    /\ exc = NoExc
    /\ calls = <<>>
    /\ prev = Fresh(NoSolver)
    /\ frames = <<>>

\* The user types a text into a field (or picks a method)
Escribir(campo, texto) ==
    /\ app' = [app EXCEPT ![campo] = texto]
    /\ op' = "escribir"
    /\ pc' = "returned"
    /\ args' = [campo |-> campo, texto |-> texto]
    /\ UNCHANGED <<given, solver, i, t_values, y_values, evals, ret, exc, calls, prev, frames>>

\* The button Calcular; args keeps the window as it was when it was pressed
Calcular ==
    /\ Len(app.log_text) < MaxLog
    /\ app' = calcular(app)
    /\ op' = "calcular"
    /\ pc' = "returned"
    /\ args' = [window |-> app]
    /\ UNCHANGED <<given, solver, i, t_values, y_values, evals, ret, exc, calls, prev, frames>>

\* The button Limpiar
Limpiar ==
    /\ app' = limpiar(app)
    /\ op' = "limpiar"
    /\ pc' = "returned"
    /\ args' = NoArgs
    /\ UNCHANGED <<given, solver, i, t_values, y_values, evals, ret, exc, calls, prev, frames>>

NextUI ==
    \/ \E campo \in Campos : \E texto \in Textos(campo) : Escribir(campo, texto)
    \/ Calcular
    \/ Limpiar

SpecUI == InitUI /\ [][NextUI]_vars

-----------------------------------------------------------------------------
\* The configuration manager (utils/config_manager.py).  A configuration is
\* a dict; the model keeps its list recent_files (when the key is there) and
\* which other keys it has: those of DEFAULT_CONFIG ("builtin") or those of
\* _get_configuracion_por_defecto ("ventana").  app holds self.config, the
\* class attribute DEFAULT_CONFIG as it is now, whether the two dicts hold
\* one and the same list object under "recent_files" (shared), and the
\* configuration file.

RECENT_LIMIT == 10

\* The dict literal of the class body
DEFAULT_CONFIG == [keys |-> "builtin", has_recent |-> TRUE, recent_files |-> <<>>]

_get_configuracion_por_defecto ==
    [keys |-> "ventana", has_recent |-> FALSE, recent_files |-> <<>>]

NoFile == [keys |-> "none", has_recent |-> FALSE, recent_files |-> <<>>]

\* The paths the caller passes to add_recent_file
Paths == {"a.csv", "b.csv", "c.csv"}

\* list.remove(x) after "if x in list", then list.insert(0, x)
MoveToFront(list, x) ==
    <<x>> \o SelectSeq(list, LAMBDA e : e # x)

\* list[:k]
Take(list, k) == SubSeq(list, 1, IF Len(list) < k THEN Len(list) ELSE k)

\* ConfigManager(): the file is absent, or holds a configuration saved before
InitConfig ==
    /\ \E on_disk \in {NoFile, DEFAULT_CONFIG,
                       [DEFAULT_CONFIG EXCEPT !.recent_files = <<"a.csv">>]} :
          app = [layer |-> "config",
                 config |-> (IF on_disk = NoFile THEN _get_configuracion_por_defecto
                             ELSE on_disk),
                 DEFAULT_CONFIG |-> DEFAULT_CONFIG,
                 shared |-> FALSE,
                 file |-> on_disk]
    /\ given = [t0 |-> Zero, y0 |-> Zero, h |-> Zero, n |-> [c |-> "int", v |-> 0]]
    /\ solver = NoSolver
    /\ op = "none"
    /\ pc = "idle"
    /\ args = NoArgs
    /\ i = 0
    /\ t_values = <<>>
    /\ y_values = <<>>
    /\ evals = <<>>
    /\ ret = <<>>
    /\ exc = NoExc
    /\ calls = <<>>
    /\ prev = Fresh(NoSolver)
    /\ frames = <<>>

\* save_config(): the file is written, or open() fails and False is returned
SaveConfig(written) ==
    /\ app.layer = "config"
    /\ app' = [app EXCEPT !.file = IF written THEN app.config ELSE @]
    /\ op' = "save_config"
    /\ pc' = "returned"
    /\ args' = NoArgs
    /\ ret' = <<written>>
    /\ UNCHANGED <<given, solver, i, t_values, y_values, evals, exc, calls, prev, frames>>

\* reset_config(): self.config = self.DEFAULT_CONFIG.copy(); return self.save_config()
\* dict.copy() is shallow: the new dict holds the very list of DEFAULT_CONFIG.
ResetConfig(written) ==
    /\ app.layer = "config"
    /\ LET c == app.DEFAULT_CONFIG IN
       app' = [app EXCEPT !.config = c,
                          !.shared = TRUE,
                          !.file = IF written THEN c ELSE @]
    /\ op' = "reset_config"
    /\ pc' = "returned"
    /\ args' = NoArgs
    /\ ret' = <<written>>
    /\ UNCHANGED <<given, solver, i, t_values, y_values, evals, exc, calls, prev, frames>>

\* add_recent_file(file_path): the list found under "recent_files" is changed
\* in place, and a slice of it is stored under the key.
AddRecentFile(file_path) ==
    /\ app.layer = "config"
    /\ LET recent_files == MoveToFront(app.config.recent_files, file_path) IN
       app' = [app EXCEPT !.config.recent_files = Take(recent_files, RECENT_LIMIT),
                          !.config.has_recent = TRUE,
                          !.DEFAULT_CONFIG.recent_files =
                              IF app.shared THEN recent_files ELSE @,
                          !.shared = FALSE]
    /\ op' = "add_recent_file"
    /\ pc' = "returned"
    /\ args' = [file_path |-> file_path]
    /\ ret' = <<TRUE>>
    /\ UNCHANGED <<given, solver, i, t_values, y_values, evals, exc, calls, prev, frames>>

NextConfig ==
    \/ \E written \in BOOLEAN : SaveConfig(written)
    \/ \E written \in BOOLEAN : ResetConfig(written)
    \/ \E file_path \in Paths : AddRecentFile(file_path)

SpecConfig == InitConfig /\ [][NextConfig]_vars

-----------------------------------------------------------------------------
\* The theme manager (utils/theme_manager.py).  A theme is kept by its name;
\* app holds current_theme, the names in custom_themes and the names n whose
\* file themes/n.json is on disk.

\* The keys of the class attribute THEMES
THEMES == {"light", "dark", "high_contrast"}

\* The names the caller passes
ThemeNames == {"light", "dark", "solar", "ocean"}

\* ThemeManager(): load_custom_themes reads the files found in themes/
InitTheme ==
    /\ \E on_disk \in SUBSET {"solar", "ocean"} :
          app = [layer |-> "theme", current_theme |-> "light",
                 custom_themes |-> on_disk, files |-> on_disk]
    /\ given = [t0 |-> Zero, y0 |-> Zero, h |-> Zero, n |-> [c |-> "int", v |-> 0]]
    /\ solver = NoSolver
    /\ op = "none"
    /\ pc = "idle"
    /\ args = NoArgs
    /\ i = 0
    /\ t_values = <<>>
    /\ y_values = <<>>
    /\ evals = <<>>
    /\ ret = <<>>
    /\ exc = NoExc
    /\ calls = <<>>
    /\ prev = Fresh(NoSolver)
    /\ frames = <<>>

\* set_theme(theme_name)
SetTheme(theme_name) ==
    /\ app.layer = "theme"
    /\ LET known == theme_name \in THEMES \/ theme_name \in app.custom_themes IN
       /\ app' = [app EXCEPT !.current_theme = IF known THEN theme_name ELSE @]
       /\ ret' = <<known>>
    /\ op' = "set_theme"
    /\ pc' = "returned"
    /\ args' = [theme_name |-> theme_name, self |-> app]
    /\ UNCHANGED <<given, solver, i, t_values, y_values, evals, exc, calls, prev, frames>>

\* save_custom_theme(theme_name, theme_config): the theme is put in
\* custom_themes, then the file is written, or open() fails and False is
\* returned.
SaveCustomTheme(theme_name, written) ==
    /\ app.layer = "theme"
    /\ app' = [app EXCEPT !.custom_themes = @ \cup {theme_name},
                          !.files = IF written THEN @ \cup {theme_name} ELSE @]
    /\ ret' = <<written>>
    /\ op' = "save_custom_theme"
    /\ pc' = "returned"
    /\ args' = [theme_name |-> theme_name, self |-> app]
    /\ UNCHANGED <<given, solver, i, t_values, y_values, evals, exc, calls, prev, frames>>

\* delete_custom_theme(theme_name): the theme is taken out of custom_themes,
\* then its file, if there, is removed; when os.remove raises (removed is
\* false) the except branch prints and False is returned.
DeleteCustomTheme(theme_name, removed) ==
    /\ app.layer = "theme"
    /\ IF theme_name \notin app.custom_themes
       THEN /\ app' = app
            /\ ret' = <<FALSE>>
       ELSE IF theme_name \in app.files /\ ~removed
       THEN /\ app' = [app EXCEPT !.custom_themes = @ \ {theme_name}]
            /\ ret' = <<FALSE>>
       ELSE /\ app' = [app EXCEPT !.custom_themes = @ \ {theme_name},
                                  !.files = @ \ {theme_name},
                                  !.current_theme =
                                      IF @ = theme_name THEN "light" ELSE @]
            /\ ret' = <<TRUE>>
    /\ op' = "delete_custom_theme"
    /\ pc' = "returned"
    /\ args' = [theme_name |-> theme_name, self |-> app]
    /\ UNCHANGED <<given, solver, i, t_values, y_values, evals, exc, calls, prev, frames>>

NextTheme ==
    \/ \E theme_name \in ThemeNames \cup {"none"} : SetTheme(theme_name)
    \/ \E theme_name \in ThemeNames, written \in BOOLEAN : SaveCustomTheme(theme_name, written)
    \/ \E theme_name \in ThemeNames, removed \in BOOLEAN : DeleteCustomTheme(theme_name, removed)

SpecTheme == InitTheme /\ [][NextTheme]_vars

-----------------------------------------------------------------------------
\* Properties

\* What the specification asks of solve's arguments
ValidN(n) == n.c = "int" /\ n.v >= 1
PositiveH(h) == IsFloat(h) /\ FLt(Zero, h)
NonPositiveH(h) == IsFloat(h) /\ FLe(h, Zero)
ValidInput(a) ==
    /\ ValidN(a.n)
    /\ PositiveH(a.h)
    /\ IsFinite(a.t0)
    /\ IsFinite(a.y0)

InSolve == op = "solve"
Last(q) == q[Len(q)]

\* The last evaluation of f in this solve failed
EvalFailed ==
    /\ evals # <<>>
    /\ ~evaluar_funcion(solver.f, Last(evals)[1], Last(evals)[2]).ok

\* C1: for every valid input (h > 0, integer n >= 1, finite t0 and y0) and each
\* variant, t_values and y_values have length n+1 from the moment they are
\* allocated to the moment they are returned, with t_values[0] == t0 and
\* y_values[0] == y0, and such a solve fails only when evaluating f fails.
C1_TrajectoryShape ==
    (InSolve /\ ValidInput(args)) =>
        /\ pc = "loop" =>
             /\ Len(t_values) = args.n.v + 1
             /\ Len(y_values) = args.n.v + 1
             /\ FEq(t_values[1], args.t0)
             /\ FEq(y_values[1], args.y0)
        /\ pc = "returned" =>
             /\ Len(ret) = 2
             /\ Len(ret[1]) = args.n.v + 1
             /\ Len(ret[2]) = args.n.v + 1
             /\ FEq(ret[1][1], args.t0)
             /\ FEq(ret[2][1], args.y0)
        /\ pc = "raised" => (exc = EvalError /\ EvalFailed)

C1_Witness ==
    /\ InSolve /\ ValidInput(args) /\ pc = "returned"
    /\ args.n.v >= 2
    /\ solver.cls = "RK4Solver"

\* C2 as stated: when f is identically zero, y_i = y0 for every i in 0..n, for
\* any h > 0 and n >= 1.
C2_Original ==
    (InSolve /\ pc = "returned" /\ solver.funcion = "0"
        /\ PositiveH(args.h) /\ IsFinite(args.t0) /\ IsFinite(args.y0)) =>
        \A k \in 1..(args.n.v + 1) : FEq(ret[2][k], args.y0)

\* C2, amended: when f is identically zero and h > 0 is finite, y_i = y0 for
\* every i in 0..n, for every t0 and every y0 other than NaN that solve accepts.
C2_ZeroSlope ==
    (InSolve /\ solver.funcion = "0" /\ PositiveH(args.h) /\ IsFinite(args.h)
        /\ args.y0.c # "nan") =>
        /\ pc = "loop" => \A k \in 1..(i + 1) : FEq(y_values[k], args.y0)
        /\ pc = "returned" => \A k \in 1..(args.n.v + 1) : FEq(ret[2][k], args.y0)
        /\ pc = "raised" => ~(ValidN(args.n) /\ IsFloat(args.t0) /\ IsFloat(args.y0))

C2_Witness ==
    /\ InSolve /\ pc = "returned" /\ solver.funcion = "0"
    /\ solver.cls = "HeunSolver"
    /\ IsFinite(args.h) /\ args.n.v >= 2
    /\ args.y0 = Fin(UNIT)

\* C3 as stated: in every returned trajectory the t sequence is strictly
\* increasing with uniform step h (here for finite t0 and finite h > 0 only).
C3_Original ==
    (InSolve /\ pc = "returned" /\ ValidInput(args) /\ IsFinite(args.h)) =>
        \A k \in 1..args.n.v :
            /\ FLt(ret[1][k], ret[1][k + 1])
            /\ FEq(FSub(ret[1][k + 1], ret[1][k]), args.h)

TimesCumulative(tv, last) ==
    \A k \in 1..last :
        /\ tv[k + 1] = FAdd(tv[k], args.h)
        /\ (args.t0.c # "nan" /\ args.h.c # "nan") => FLe(tv[k], tv[k + 1])
        /\ (IsFinite(tv[k]) /\ IsFinite(args.h) /\ FAdd(tv[k], args.h) = Fin(tv[k].v + args.h.v))
              => (FLt(tv[k], tv[k + 1]) /\ FSub(tv[k + 1], tv[k]) = args.h)

\* C3, amended: t_{i+1} is the floating-point sum of the stored t_i and h
\* (cumulative addition, not t0 + (i+1)*h), so the t sequence never decreases;
\* it increases by exactly h at every step where t_i + h is representable.
C3_CumulativeTime ==
    InSolve =>
        /\ pc = "loop" => TimesCumulative(t_values, i)
        /\ pc = "returned" => TimesCumulative(ret[1], args.n.v)

C3_Witness ==
    /\ InSolve /\ pc = "returned" /\ ValidInput(args) /\ IsFinite(args.h)
    /\ args.n.v >= 2
    /\ ret[1][2] = ret[1][1]

\* C4: solve called with h <= 0, or with n that is not a positive integer,
\* raises ValueError; no step is taken, f is not evaluated, no array is
\* allocated and nothing is returned.
C4_InvalidStepOrCount ==
    (InSolve /\ (NonPositiveH(args.h) \/ ~ValidN(args.n))) =>
        /\ pc = "raised"
        /\ exc.type = "ValueError"
        /\ i = 0
        /\ evals = <<>>
        /\ t_values = <<>> /\ y_values = <<>>
        /\ ret = <<>>

C4_Witness ==
    /\ InSolve /\ pc = "raised"
    /\ args.n = [c |-> "int", v |-> 0]
    /\ PositiveH(args.h) /\ IsFinite(args.t0) /\ IsFinite(args.y0)

\* C5 as stated: solve called with a t0 or y0 that is not a finite real number
\* (NaN and the infinities included) raises ValueError and returns nothing.
C5_NonFiniteRejected ==
    (InSolve /\ (~IsFinite(args.t0) \/ ~IsFinite(args.y0))) =>
        /\ pc = "raised"
        /\ exc.type = "ValueError"
        /\ ret = <<>>

\* C6: when evaluating f raises at a step of a solve, the solve ends there with
\* the exception, and the caller receives no trajectory: nothing is returned
\* and the arrays holding the points of the earlier steps are gone.
C6_NoPartialTrajectory ==
    (InSolve /\ EvalFailed) =>
        /\ pc = "raised"
        /\ exc # NoExc
        /\ ret = <<>>
        /\ t_values = <<>> /\ y_values = <<>>
        /\ i < args.n.v

C6_Witness ==
    /\ InSolve /\ EvalFailed /\ pc = "raised"
    /\ i >= 1

\* C7 as stated: the error that surfaces when evaluating f fails carries the
\* failing point (t, y) and the index of the step at which it failed.
C7_ErrorCarriesContext ==
    (InSolve /\ EvalFailed /\ pc = "raised") =>
        /\ exc.point = Last(evals)
        /\ exc.step = i

\* C8 as stated: for each selector among "euler", "heun", "rk4", in any letter
\* case, get_solver returns an instance of the corresponding class.
C8_KnownMethodGivesSolver ==
    (op = "get_solver" /\ Lower(args.method_name) \in Range(get_available_methods)) =>
        /\ pc = "returned"
        /\ Len(ret) = 1
        /\ \E e \in Range(AVAILABLE_SOLVERS) :
              e.key = Lower(args.method_name) /\ ret[1].cls = e.cls

\* C9: get_solver called with a name that is not an available method raises
\* ValueError, its message holds every available method name, and no solver is
\* returned.
C9_UnknownMethodRejected ==
    (op = "get_solver" /\ Lower(args.method_name) \notin Range(get_available_methods)) =>
        /\ pc = "raised"
        /\ exc.type = "ValueError"
        /\ \A k \in Range(get_available_methods) : k \in Range(exc.msg)
        /\ ret = <<>>

C9_Witness ==
    /\ op = "get_solver" /\ pc = "raised"
    /\ args.method_name = "midpoint"

\* C10 as stated: analyze_step_size, for a known method and positive step
\* sizes, returns step_sizes (as given) and errors of equal length, every error
\* non-negative.
C10_SweepResultShape ==
    (op = "analyze_step_size"
        /\ Lower(args.method_name) \in Range(get_available_methods)
        /\ \A k \in 1..Len(args.step_sizes) : PositiveH(args.step_sizes[k])) =>
        /\ pc = "returned"
        /\ Len(ret) = 3
        /\ ret[1] = args.step_sizes
        /\ Len(ret[2]) = Len(ret[1])
        /\ \A k \in 1..Len(ret[2]) : FLe(Zero, ret[2][k])

\* Sweeps (analyze_step_size)
InSweep == op = "analyze_step_size"
KnownMethod(m) == Lower(m) \in Range(get_available_methods)
PositiveSteps(q) == \A k \in 1..Len(q) : PositiveH(q[k]) /\ IsFinite(q[k])
SomeStep == Len(args.step_sizes) > 0

\* floor((t_end - t0) / h), for h > 0 finite and t_end >= t0
FloorSteps(t0, t_end, h) == IntOf(FDiv(FSub(t_end, t0), h).val)

\* The least element of a non-empty sequence of floats
Min(q) == CHOOSE x \in Range(q) : \A z \in Range(q) : FLe(x, z)

\* C11 as stated: for every step size h of a sweep, analyze_step_size solves
\* with n = floor((t_end - t0) / h) steps, also when h does not divide
\* t_end - t0: that solve completes and its last time value is at most t_end.
C11_SolvesEveryStepSize ==
    (InSweep /\ KnownMethod(args.method_name) /\ PositiveSteps(args.step_sizes)) =>
        \A k \in 1..Len(args.step_sizes) :
            \E j \in 1..Len(calls) :
                /\ calls[j].method = Lower(args.method_name)
                /\ calls[j].h = args.step_sizes[k]
                /\ calls[j].n.v = FloorSteps(args.t0, args.t_end, args.step_sizes[k])
                /\ Len(calls[j].ret) = 2
                /\ FLe(Last(calls[j].ret[1]), args.t_end)

\* C12 as stated: with no analytic solution, the reference trajectory comes
\* from an RK4 solve starting at (t0, y0), over [t0, t_end], with a step
\* h_ref <= min(step_sizes) / 10.
C12_ReferenceByRK4 ==
    (InSweep /\ KnownMethod(args.method_name) /\ args.solution_str = ""
        /\ SomeStep /\ PositiveSteps(args.step_sizes)) =>
        \E j \in 1..Len(calls) :
            /\ calls[j].method = "rk4"
            /\ calls[j].t0 = args.t0
            /\ calls[j].y0 = args.y0
            /\ FLe(FMulInt(10, calls[j].h), Min(args.step_sizes))
            /\ calls[j].n.v = FloorSteps(args.t0, args.t_end, calls[j].h)
            /\ Len(calls[j].ret) = 2

\* C13 as stated: analyze_step_size returns an estimated order when at least
\* two distinct step sizes were sampled, and returns it absent (None) when
\* fewer than two distinct step sizes were sampled.
C13_OrderWhenTwoDistinct ==
    (InSweep /\ KnownMethod(args.method_name) /\ SomeStep
        /\ PositiveSteps(args.step_sizes)) =>
        /\ pc = "returned"
        /\ Len(ret) = 3
        /\ Cardinality(Range(args.step_sizes)) >= 2 => Len(ret[3]) = 1
        /\ Cardinality(Range(args.step_sizes)) < 2 => ret[3] = <<>>

\* Comparisons (compare_methods)
InCompare == op = "compare_methods"

\* The method names a comparison was asked for: all three when methods is None
Requested(methods) == IF methods.none THEN {"euler", "heun", "rk4"} ELSE Range(methods.list)

\* A comparison of known methods over an interval that holds at least one step
ValidComparison ==
    /\ InCompare
    /\ Requested(args.methods) # {}
    /\ \A m \in Requested(args.methods) : KnownMethod(m)
    /\ PositiveH(args.h) /\ IsFinite(args.h)
    /\ FLe(args.h, FSub(args.t_end, args.t0))

\* C14 as stated: compare_methods runs every requested variant (all three when
\* methods is not given) with the same t0, y0, h and n, and returns one
\* y-sequence per requested method name, each as long as the returned
\* t_values; analytic_values, when a solution is given, has that length too.
C14_AlignedTrajectories ==
    ValidComparison =>
        /\ pc = "returned"
        /\ Len(ret) = 3
        /\ \A m \in Requested(args.methods) :
              /\ \E k \in 1..Len(ret[2]) :
                    ret[2][k].name = m /\ Len(ret[2][k].y_values) = Len(ret[1])
              /\ \E j \in 1..Len(calls) :
                    /\ calls[j].method = Lower(m)
                    /\ calls[j].t0 = args.t0 /\ calls[j].y0 = args.y0
                    /\ calls[j].h = args.h
                    /\ calls[j].n.v = FloorSteps(args.t0, args.t_end, args.h)
        /\ args.solution_str # "" => Len(ret[3]) = Len(ret[1])

\* C15 as stated: calculate_errors returns rel_error[i] == 0 wherever the
\* analytic value is exactly 0, whatever the numeric value there; rel_error is
\* never NaN or infinite; abs_error[i] = |y_numeric[i] - y_analytic[i]| >= 0
\* (here for arrays of finite values).
C15_RelativeErrorZeroGuard ==
    (op = "calculate_errors"
        /\ \A k \in 1..Len(args.y_numeric) :
              IsFinite(args.y_numeric[k]) /\ IsFinite(args.y_analytic[k])) =>
        \A k \in 1..Len(args.y_numeric) :
            /\ args.y_analytic[k] = Zero => ret[2][k] = Zero
            /\ IsFinite(ret[2][k])
            /\ ret[1][k] = NpAbs(FSub(args.y_numeric[k], args.y_analytic[k]))
            /\ FLe(Zero, ret[1][k])

\* C16 as stated: when the analytic solution fails at a point, only the
\* comparison is aborted: the numeric trajectories computed in that request
\* remain available to the caller.
C16_NumericResultsSurvive ==
    (ValidComparison /\ args.solution_str # "" /\ ~parse_solution(args.solution_str).ok) =>
        /\ Len(ret) >= 2
        /\ \A m \in Requested(args.methods) :
              \E k \in 1..Len(ret[2]) :
                  ret[2][k].name = m /\ Len(ret[2][k].y_values) > 0

C18_SolveHasNoSideEffect ==
    /\ solver = prev.self
    /\ (InSolve /\ pc = "returned" /\ args = given /\ prev.count >= 1) => ret = prev.ret

C18_Witness ==
    /\ InSolve /\ pc = "returned" /\ args = given
    /\ prev.count = 2 /\ prev.between
    /\ solver.cls = "HeunSolver" /\ solver.funcion = "y"
    /\ args.n.v >= 2
    /\ ret = prev.ret

\* Thread k's solve has ended
Ended(k) == frames[k].pc \in {"returned", "raised"}

\* Under Spec, a solve that has ended ended as SolveAlone says.
SolveEndsAsAlone ==
    (InSolve /\ pc \in {"returned", "raised"}) =>
        LET alone == SolveAlone(solver, args)
        IN  alone.pc = pc /\ alone.ret = ret /\ alone.exc = exc

\* C19: two solve calls running concurrently, on one solver instance or on
\* two, in any interleaving of their iterations, share no mutable state: the
\* instance keeps its fields, and each call ends exactly as it would when run
\* alone with its arguments (the same trajectory, or the same exception).
C19_ConcurrentSolvesIndependent ==
    /\ solver = given.shared
    /\ \A k \in Threads :
          Ended(k) =>
              LET alone == SolveAlone(IF k = 1 \/ given.on = "shared"
                                      THEN given.shared ELSE given.own,
                                      given.args[k])
              IN  /\ frames[k].pc = alone.pc
                  /\ frames[k].ret = alone.ret
                  /\ frames[k].exc = alone.exc

C19_Witness ==
    /\ given.on = "shared"
    /\ given.args[1] # given.args[2]
    /\ \A k \in Threads :
          /\ frames[k].pc = "returned"
          /\ frames[k].overlapped
          /\ frames[k].args.n.v >= 2

\* The enclosed value lies within tol/10^4 of c/10^4
Near(x, c, tol) ==
    /\ (c - tol) * (DSCALE \div 10^4) <= x.lo
    /\ x.hi <= (c + tol) * (DSCALE \div 10^4)

\* Heun on y' = y from (0, 1) with h = 0.1 and n = 20 has returned
HeunScenarioDone ==
    /\ op = "solve" /\ pc = "returned"
    /\ solver.cls = "HeunSolver" /\ solver.funcion = "y"
    /\ args = [t0 |-> 0, y0 |-> 1, h |-> [num |-> 1, den |-> 10], n |-> 20]

\* C20 as stated: solving y' = y with t0 = 0, y0 = 1, h = 0.1, n = 20 by Heun
\* gives y_values[20] within 1e-3 of 7.4009.
C20_Original == HeunScenarioDone => Near(ret[2][21], 74009, 10)

\* C20, amended: solving y' = y with t0 = 0, y0 = 1, h = 0.1, n = 20 by Heun
\* gives y_values[20] within 1e-3 of 7.3662 (1.105^20), below e^2.
C20_HeunScenario == HeunScenarioDone => Near(ret[2][21], 73662, 10)

C20_Witness == HeunScenarioDone /\ Near(ret[2][21], 73662, 10) /\ Len(ret[2]) = 21

\* The slope f(t, y) of the solver in use
Slope(t, y) == evaluar_funcion(solver.f, t, y).val

\* The first k steps of tv, yv are Euler steps, with one evaluation each
EulerTrace(tv, yv, k) ==
    \A j \in 1..k :
        /\ evals[j] = <<tv[j], yv[j]>>
        /\ yv[j + 1] = FAdd(yv[j], FMul(args.h, Slope(tv[j], yv[j])))

\* C21: each Euler step i sets y_{i+1} = y_i + h*f(t_i, y_i) and evaluates f
\* exactly once, at (t_i, y_i); a complete solve evaluates f exactly n times.
C21_EulerStep ==
    (InSolve /\ solver.cls = "EulerSolver") =>
        /\ pc = "loop" => (Len(evals) = i /\ EulerTrace(t_values, y_values, i))
        /\ pc = "returned" => (Len(evals) = args.n.v /\ EulerTrace(ret[1], ret[2], args.n.v))

C21_Witness ==
    /\ InSolve /\ solver.cls = "EulerSolver" /\ pc = "returned"
    /\ solver.funcion = "1/t"
    /\ ValidInput(args) /\ args.n.v >= 2
    /\ Len(evals) = args.n.v

\* The first k steps of tv, yv are Heun steps, with two evaluations each
HeunTrace(tv, yv, k) ==
    \A j \in 1..k :
        LET k1 == Slope(tv[j], yv[j])
            y_pred == FAdd(yv[j], FMul(args.h, k1))
            k2 == Slope(FAdd(tv[j], args.h), y_pred)
        IN  /\ evals[2 * j - 1] = <<tv[j], yv[j]>>
            /\ evals[2 * j] = <<FAdd(tv[j], args.h), y_pred>>
            /\ yv[j + 1] = FAdd(yv[j], FMul(FDivInt(args.h, 2), FAdd(k1, k2)))

\* C22: each Heun step i computes k1 = f(t_i, y_i), y_pred = y_i + h*k1,
\* k2 = f(t_i + h, y_pred) and sets y_{i+1} = y_i + (h/2)*(k1 + k2); f is
\* evaluated exactly twice per step, in that order, 2n times in a whole solve.
C22_HeunStep ==
    (InSolve /\ solver.cls = "HeunSolver") =>
        /\ pc = "loop" => (Len(evals) = 2 * i /\ HeunTrace(t_values, y_values, i))
        /\ pc = "returned" =>
              (Len(evals) = 2 * args.n.v /\ HeunTrace(ret[1], ret[2], args.n.v))

C22_Witness ==
    /\ InSolve /\ solver.cls = "HeunSolver" /\ pc = "returned"
    /\ solver.funcion = "1/t"
    /\ ValidInput(args) /\ args.n.v >= 2
    /\ Len(evals) = 2 * args.n.v

\* The first k steps of tv, yv are RK4 steps, with four evaluations each
RK4Trace(tv, yv, k) ==
    \A j \in 1..k :
        LET h == args.h
            t == tv[j]
            y == yv[j]
            k1 == Slope(t, y)
            p2 == <<FAdd(t, FDivInt(h, 2)), FAdd(y, FDivInt(FMul(h, k1), 2))>>
            k2 == Slope(p2[1], p2[2])
            p3 == <<FAdd(t, FDivInt(h, 2)), FAdd(y, FDivInt(FMul(h, k2), 2))>>
            k3 == Slope(p3[1], p3[2])
            p4 == <<FAdd(t, h), FAdd(y, FMul(h, k3))>>
            k4 == Slope(p4[1], p4[2])
        IN  /\ SubSeq(evals, 4 * j - 3, 4 * j) = <<<<t, y>>, p2, p3, p4>>
            /\ yv[j + 1] =
                 FAdd(y, FMul(FDivInt(h, 6),
                              FAdd(FAdd(FAdd(k1, FMulInt(2, k2)), FMulInt(2, k3)), k4)))

\* C23: each RK4 step i computes k1 = f(t_i, y_i), k2 = f(t_i + h/2,
\* y_i + h*k1/2), k3 = f(t_i + h/2, y_i + h*k2/2), k4 = f(t_i + h, y_i + h*k3)
\* in that order and sets y_{i+1} = y_i + (h/6)*(k1 + 2*k2 + 2*k3 + k4); f is
\* evaluated exactly four times per step, 4n times in a whole solve.
C23_RK4Step ==
    (InSolve /\ solver.cls = "RK4Solver") =>
        /\ pc = "loop" => (Len(evals) = 4 * i /\ RK4Trace(t_values, y_values, i))
        /\ pc = "returned" =>
              (Len(evals) = 4 * args.n.v /\ RK4Trace(ret[1], ret[2], args.n.v))

C23_Witness ==
    /\ InSolve /\ solver.cls = "RK4Solver" /\ pc = "returned"
    /\ solver.funcion = "y"
    /\ ValidInput(args) /\ IsFinite(args.h) /\ args.n.v >= 2
    /\ Len(evals) = 4 * args.n.v
    /\ IsFinite(ret[2][2]) /\ ret[2][2] # ret[2][1]

\* A sweep of a known method over positive step sizes, with no analytic solution
SweepWithoutSolution ==
    /\ InSweep /\ KnownMethod(args.method_name)
    /\ args.solution_str = ""
    /\ SomeStep /\ PositiveSteps(args.step_sizes)

\* The positions in calls of the reference solves: RK4 with h_ref = min / 10
ReferenceCalls ==
    {j \in 1..Len(calls) :
        /\ calls[j].method = "rk4"
        /\ calls[j].h = FDivInt(Min(args.step_sizes), 10)}

\* C24 as stated: in a sweep without an analytic solution the RK4 reference
\* solve is run exactly once, while the first step size is processed (right
\* after its solve, before any other); in a sweep with an analytic solution it
\* is never run.
C24_ReferenceSolvedOnce ==
    /\ SweepWithoutSolution => ReferenceCalls = {2}
    /\ (InSweep /\ args.solution_str # "") =>
          \A j \in 1..Len(calls) : calls[j].method = Lower(args.method_name)

\* C28 as stated: in a sweep without an analytic solution the time values
\* paired with the reference y-values for the interpolation, linspace(t0,
\* t_end, len(y_ref)), are the times at which the reference solve produced
\* those values.
C28_ReferenceGridIsSolveGrid ==
    SweepWithoutSolution =>
        \E j \in ReferenceCalls :
            /\ Len(calls[j].ret) = 2
            /\ Linspace(args.t0, args.t_end, Len(calls[j].ret[2])) = calls[j].ret[1]

\* Under Spec: whenever a returned solve stops short of t0 + 2 (the interval of
\* the sweeps), linspace over that interval is not the solve's time grid.
LinspaceDiffersWhenShort ==
    (InSolve /\ pc = "returned" /\ ValidInput(args) /\ IsFinite(args.h)
        /\ FLt(Last(ret[1]), FAdd(args.t0, Fin(2 * UNIT)))) =>
        Linspace(args.t0, FAdd(args.t0, Fin(2 * UNIT)), Len(ret[2])) # ret[1]

\* C25: for every valid (t0, y0, h, n), a solve that has entered its loop runs
\* to completion: the loop index goes up by one at each iteration, from 0 to
\* n - 1, and then solve returns, having made n iterations; the only other way
\* out is an evaluation of f that raises.
C25_SolveTerminates ==
    /\ [][(InSolve /\ pc = "loop" /\ pc' = "loop") => (i < args.n.v /\ i' = i + 1)]_vars
    /\ [][(InSolve /\ pc = "loop" /\ pc' = "returned") => i = args.n.v]_vars
    /\ (InSolve /\ pc = "loop" /\ ValidInput(args)) ~>
          \/ InSolve /\ pc = "returned" /\ i = args.n.v /\ Len(ret[2]) = args.n.v + 1
          \/ InSolve /\ pc = "raised" /\ EvalFailed

C25_Witness ==
    /\ InSolve /\ pc = "returned" /\ ValidInput(args)
    /\ args.n.v = MaxN /\ i = MaxN
    /\ solver.cls = "EulerSolver"

\* The request calcular was given complete, valid fields
EntradasValidas == validar_entradas(args.window).ok

\* The request calcular failed: the fields were rejected, or the try block raised
CalculoRechazado ==
    ~EntradasValidas \/ app.status_label = "Error en el cálculo"

\* C26: a calculation requested with complete, valid fields and method heun or
\* euler leaves exactly n + 1 rows in the results table.
C26_TableHoldsTrajectory ==
    (op = "calcular" /\ EntradasValidas /\ args.window.var_metodo \in {"heun", "euler"}) =>
        Len(app.tree) = ParseInt(args.window.var_num_pasos).val + 1

C29_ResetRestoresDefaults ==
    /\ op = "reset_config" => (app.config = DEFAULT_CONFIG /\ app.config.recent_files = <<>>)
    /\ app.layer = "config" => app.DEFAULT_CONFIG = DEFAULT_CONFIG

\* C30: after any sequence of set_theme, save_custom_theme and
\* delete_custom_theme calls, a delete whose file removal fails included,
\* current_theme names a built-in or custom theme; set_theme changes it only to
\* a known name and returns false, leaving it as it was, otherwise; deleting
\* the custom theme that is current resets current_theme to "light".
C30_CurrentThemeExists ==
    app.layer = "theme" =>
        /\ app.current_theme \in THEMES \cup app.custom_themes
        /\ op = "set_theme" =>
              IF args.theme_name \in THEMES \cup args.self.custom_themes
              THEN app.current_theme = args.theme_name /\ ret = <<TRUE>>
              ELSE app.current_theme = args.self.current_theme /\ ret = <<FALSE>>
        /\ (/\ op = "delete_custom_theme"
            /\ args.theme_name \in args.self.custom_themes
            /\ args.self.current_theme = args.theme_name) =>
              app.current_theme = "light"
=============================================================================
